---- MODULE Spec2Model ----
(***************************************************************************)
(* Model of SignInManager (src/src/automation/signin.py): one invocation   *)
(* of login() against a browser session whose answers (which selectors     *)
(* match, which driver call raises, what the page text holds) are chosen   *)
(* by the environment at the moment of each call.                          *)
(*                                                                         *)
(* Python True / False / None are the strings "True" / "False" / "None";   *)
(* "unset" marks a value the run has not produced.                         *)
(* Selector and phrase literals holding non-ASCII text are written with an *)
(* ASCII stand-in of the quoted text; their order in each list is the      *)
(* source's.                                                               *)
(***************************************************************************)
EXTENDS Integers, Sequences, FiniteSets, TLC

\* pc       the step of login() about to run ("done": login() has returned)
\* config   the configuration the manager was constructed with
\* environ  the run environment (a session-cookie string supplied or not)
\* browser  the browser session: what has been done to it so far
\* ret      what each method returned in this run
\* obs      what the page showed: the elements located, the markers and the
\*          failure phrases present when they were looked for
\* exc      steps whose own handler caught an exception, and the step whose
\*          exception reached login()'s handler
\* trail    the steps run so far, in order
\* outcome  what login() gave its caller: "True", "False", or "Exception"
\*          for an exception let through
VARIABLES pc, config, environ, browser, ret, obs, exc, trail, outcome

vars == <<pc, config, environ, browser, ret, obs, exc, trail, outcome>>

None == "None"
Unset == "unset"
Py(b) == IF b THEN "True" ELSE "False"

\* ----------------------------------------------------------------- bound
\* Longest option list a question selector offers.
MaxOptions == 2

\* Texts of the configured security question and of the option labels:
\* the empty string (the configuration's default), "a" and "ab".
Texts == {<<>>, <<"a">>, <<"a", "b">>}

RECURSIVE OptionListsUpTo(_)
OptionListsUpTo(n) ==
    IF n = 0 THEN {<<>>}
    ELSE LET shorter == OptionListsUpTo(n - 1)
         IN  shorter \cup {Append(l, t) : l \in {s \in shorter : Len(s) = n - 1}, t \in Texts}

OptionLists == OptionListsUpTo(MaxOptions)

\* Python's `needle in hay` on strings.
InText(needle, hay) ==
    \E i \in 0..(Len(hay) - Len(needle)) :
        \A k \in 1..Len(needle) : hay[i + k] = needle[k]

\* ------------------------------------------------------- selector lists
age_selectors == <<"a[href*='agecheck']", "//a[contains(text(), 'over18')]", "//a[contains(text(), 'enter')]">>
username_selectors == <<"input[name='username']", "#username">>
password_selectors == <<"input[name='password']", "#password">>
question_selectors == <<"select[name='questionid']", "#questionid">>
answer_selectors == <<"input[name='answer']", "#answer">>
submit_selectors == <<"#loginsubmit", "button[type='submit']", "input[type='submit']">>
indicators == <<"//a[contains(text(),'logout_text')]", "//a[contains(@href,'logout')]", ".vwmy">>
errors == <<"wrong_username_or_password", "too_many_password_errors", "account_disabled", "login_failed">>

Range(s) == {s[i] : i \in 1..Len(s)}

\* What a page text can hold of the known phrases.  No phrase of `errors` is a substring of another, so a page
\* text is modelled by the set of phrases occurring in it.
PageTexts == SUBSET Range(errors)

Calls == {"ok", "raise"}

\* ------------------------------------------------------- element locator
\* ElementFinder.find_by_selectors / find_clickable_by_selectors: the first
\* selector of the list, in order, that resolves on the page; None otherwise.
find_by_selectors(selectors, present) ==
    IF \E i \in 1..Len(selectors) : selectors[i] \in present
    THEN selectors[CHOOSE i \in 1..Len(selectors) :
                       /\ selectors[i] \in present
                       /\ \A j \in 1..(i - 1) : selectors[j] \notin present]
    ELSE None

\* ------------------------------------------------------- browser session
\* gets: driver.get calls; lookups: locator calls; clicks: targets clicked,
\* in order; writes: <<field, operation>> on input elements, in order.
NewBrowser == [gets |-> 0, lookups |-> 0, clicks |-> <<>>, writes |-> <<>>]

Get(b) == [b EXCEPT !.gets = @ + 1]
Lookup(b) == [b EXCEPT !.lookups = @ + 1]
Click(b, target) == [b EXCEPT !.clicks = Append(@, target)]
Type(b, field, op) == [b EXCEPT !.writes = Append(@, <<field, op>>)]

Count(seq, x) == Cardinality({i \in 1..Len(seq) : seq[i] = x})

\* ------------------------------------------------- environment's answers
\* One record per call of a method: what the page shows, and `raises`, the
\* call site of the method whose driver call raises ("none": no call does).
\* An exception ends the method's try block, so one site per call suffices.
AgeAnswers ==
    [raises : {"none", "find", "safe_click", "smart_page_wait"},
     present : SUBSET Range(age_selectors)]

FormAnswers ==
    [raises : {"none", "find_username", "find_password", "username.clear",
               "username.send_keys", "password.clear", "password.send_keys"},
     user_present : SUBSET Range(username_selectors),
     pass_present : SUBSET Range(password_selectors)]

QuestionAnswers ==
    [raises : {"none", "find_select", "find_elements", "opt.click", "find_answer",
               "answer.clear", "answer.send_keys"},
     select_present : SUBSET Range(question_selectors),
     options : OptionLists,
     answer_present : SUBSET Range(answer_selectors)]

StatusAnswers == [raises : {"none", "find"}, present : SUBSET Range(indicators)]

PageAnswers == [raises : {"none", "page_source"}, page : PageTexts]

\* ------------------------------------------------------------- methods
\* Each method is an operator from the browser session and the
\* environment's answers to: ret (the Python return value), raised (an
\* exception leaves the method), caught (the method's own handler caught
\* one) and the browser session afterwards.

\* Variant of handle_age_verification without its handler: a raising
\* lookup, click or wait leaves the method.
handle_age_verification_unhandled(b, r) ==
    LET b1 == Lookup(b)
        link == find_by_selectors(age_selectors, r.present)
    IN  IF r.raises = "find"
        THEN [ret |-> Unset, raised |-> TRUE, caught |-> FALSE, browser |-> b1]
        ELSE IF link = None
        THEN [ret |-> "True", raised |-> FALSE, caught |-> FALSE, browser |-> b1]
        ELSE IF r.raises = "safe_click"
        THEN [ret |-> Unset, raised |-> TRUE, caught |-> FALSE, browser |-> b1]
        ELSE [ret |-> IF r.raises = "smart_page_wait" THEN Unset ELSE "True",
              raised |-> r.raises = "smart_page_wait", caught |-> FALSE,
              browser |-> Click(b1, "age_link")]

\* handle_age_verification: both the normal path and the handler return True.
handle_age_verification(b, r) ==
    LET b1 == Lookup(b)
        link == find_by_selectors(age_selectors, r.present)
    IN  IF r.raises = "find"
        THEN [ret |-> "True", raised |-> FALSE, caught |-> TRUE, browser |-> b1]
        ELSE IF link = None
        THEN [ret |-> "True", raised |-> FALSE, caught |-> FALSE, browser |-> b1]
        ELSE IF r.raises = "safe_click"
        THEN [ret |-> "True", raised |-> FALSE, caught |-> TRUE, browser |-> b1]
        ELSE [ret |-> "True", raised |-> FALSE, caught |-> r.raises = "smart_page_wait",
              browser |-> Click(b1, "age_link")]

\* Element calls on input fields, in source order, up to the one that raises.
RECURSIVE TypeUntil(_, _, _)
TypeUntil(b, calls, raises) ==
    IF calls = <<>> \/ Head(calls)[3] = raises THEN b
    ELSE TypeUntil(Type(b, Head(calls)[1], Head(calls)[2]), Tail(calls), raises)

form_calls == <<<<"username", "clear", "username.clear">>,
                <<"username", "send_keys", "username.send_keys">>,
                <<"password", "clear", "password.clear">>,
                <<"password", "send_keys", "password.send_keys">>>>

fill_login_form(b, r) ==
    LET b1 == Lookup(b)
        username_input == find_by_selectors(username_selectors, r.user_present)
        b2 == Lookup(b1)
        password_input == find_by_selectors(password_selectors, r.pass_present)
        typing_raises == \E i \in 1..Len(form_calls) : form_calls[i][3] = r.raises
    IN  IF r.raises = "find_username"
        THEN [ret |-> "False", raised |-> FALSE, caught |-> TRUE, browser |-> b1,
              user |-> Unset, pass |-> Unset]
        ELSE IF username_input = None
        THEN [ret |-> "False", raised |-> FALSE, caught |-> FALSE, browser |-> b1,
              user |-> None, pass |-> Unset]
        ELSE IF r.raises = "find_password"
        THEN [ret |-> "False", raised |-> FALSE, caught |-> TRUE, browser |-> b2,
              user |-> username_input, pass |-> Unset]
        ELSE IF password_input = None
        THEN [ret |-> "False", raised |-> FALSE, caught |-> FALSE, browser |-> b2,
              user |-> username_input, pass |-> None]
        ELSE [ret |-> Py(~typing_raises), raised |-> FALSE, caught |-> typing_raises,
              browser |-> TypeUntil(b2, form_calls, r.raises),
              user |-> username_input, pass |-> password_input]

answer_calls == <<<<"answer", "clear", "answer.clear">>,
                  <<"answer", "send_keys", "answer.send_keys">>>>

\* for opt in options: if self.security_question in opt.text: ...; break
\* The index of the option clicked, 0 when no option text holds the question.
MatchingOption(question, options) ==
    IF \E i \in 1..Len(options) : InText(question, options[i])
    THEN CHOOSE i \in 1..Len(options) :
             /\ InText(question, options[i])
             /\ \A j \in 1..(i - 1) : ~InText(question, options[j])
    ELSE 0

\* Variant of question_enabled: the flag is not read.
question_always_enabled(cfg) == TRUE

\* if not self.enable_security_question: return True
question_enabled(cfg) == cfg.enable_security_question

handle_security_question(cfg, b, r) ==
    LET b1 == Lookup(b)
        question_select == find_by_selectors(question_selectors, r.select_present)
        opt == MatchingOption(cfg.security_question, r.options)
        b2 == IF opt # 0 THEN Click(b1, "option") ELSE b1
        b3 == Lookup(b2)
        answer_input == find_by_selectors(answer_selectors, r.answer_present)
        typing_raises == \E i \in 1..Len(answer_calls) : answer_calls[i][3] = r.raises
    IN  IF ~question_enabled(cfg)
        THEN [ret |-> "True", raised |-> FALSE, caught |-> FALSE, browser |-> b]
        ELSE IF r.raises = "find_select"
        THEN [ret |-> "False", raised |-> FALSE, caught |-> TRUE, browser |-> b1]
        ELSE IF question_select = None
        THEN [ret |-> "True", raised |-> FALSE, caught |-> FALSE, browser |-> b1]
        ELSE IF r.raises = "find_elements" \/ (opt # 0 /\ r.raises = "opt.click")
        THEN [ret |-> "False", raised |-> FALSE, caught |-> TRUE, browser |-> b1]
        ELSE IF r.raises = "find_answer"
        THEN [ret |-> "False", raised |-> FALSE, caught |-> TRUE, browser |-> b3]
        ELSE IF answer_input = None
        THEN [ret |-> "True", raised |-> FALSE, caught |-> FALSE, browser |-> b3]
        ELSE [ret |-> Py(~typing_raises), raised |-> FALSE, caught |-> typing_raises,
              browser |-> TypeUntil(b3, answer_calls, r.raises)]

\* Variant of check_login_status whose handler returns True.
check_login_status_handler_true(b, r) ==
    LET b1 == Lookup(b)
        el == find_by_selectors(indicators, r.present)
    IN  IF r.raises = "find"
        THEN [ret |-> "True", raised |-> FALSE, caught |-> TRUE, browser |-> b1]
        ELSE [ret |-> Py(el # None), raised |-> FALSE, caught |-> FALSE, browser |-> b1]

\* check_login_status: bool(el), and False from the handler.
check_login_status(b, r) ==
    LET b1 == Lookup(b)
        el == find_by_selectors(indicators, r.present)
    IN  IF r.raises = "find"
        THEN [ret |-> "False", raised |-> FALSE, caught |-> TRUE, browser |-> b1]
        ELSE [ret |-> Py(el # None), raised |-> FALSE, caught |-> FALSE, browser |-> b1]

\* Variant of FirstIn: the scan keeps going and yields the last match.
RECURSIVE LastIn(_, _)
LastIn(phrases, page) ==
    IF phrases = <<>> THEN None
    ELSE IF LastIn(Tail(phrases), page) # None THEN LastIn(Tail(phrases), page)
    ELSE IF Head(phrases) \in page THEN Head(phrases)
    ELSE None

\* check_login_error_message: the first phrase of `errors`, in list order,
\* that occurs in the page; None when none does.  It has no handler of its
\* own: a raising page_source leaves the method.
RECURSIVE FirstIn(_, _)
FirstIn(phrases, page) ==
    IF phrases = <<>> THEN None
    ELSE IF Head(phrases) \in page THEN Head(phrases)
    ELSE FirstIn(Tail(phrases), page)

check_login_error_message(r) ==
    IF r.raises = "page_source"
    THEN [ret |-> Unset, raised |-> TRUE]
    ELSE [ret |-> FirstIn(errors, r.page), raised |-> FALSE]

\* --------------------------------------------------------------- login()
\* The steps of login(), in source order.
steps == <<"navigate", "settle_wait", "age", "fill", "security", "find_submit",
           "click_submit", "submit_wait", "status", "error_message", "done">>

Rank(step) == CHOOSE i \in 1..Len(steps) : steps[i] = step

\* Configurations one run can be constructed with.  username, password and
\* security_answer are only typed into fields, never inspected.
Configs == [enable_security_question : BOOLEAN, security_question : Texts]

\* The run environment: whether a session-cookie string is supplied.
Environs == [cookie : BOOLEAN]

Init ==
    /\ pc = "navigate"
    /\ config \in Configs
    /\ environ \in Environs
    /\ browser = NewBrowser
    /\ ret = [age |-> Unset, fill |-> Unset, security |-> Unset, status |-> Unset,
              error |-> Unset]
    /\ obs = [user |-> Unset, pass |-> Unset, submit |-> Unset, markers |-> {},
              page |-> {}]
    /\ exc = [caught |-> {}, escaped |-> None]
    /\ trail = <<>>
    /\ outcome = Unset

\* Variant of login_except: the handler lets the exception through.
login_reraise == "Exception"

\* What login()'s `except Exception` makes of an exception that reaches it.
login_except == "False"

Escape(step) ==
    /\ pc' = "done"
    /\ outcome' = login_except
    /\ exc' = [exc EXCEPT !.escaped = step]

Return(value) ==
    /\ pc' = "done"
    /\ outcome' = value

\* Variants of the gates: the form's result is not read; success is
\* reported whatever the state check returned.
FormGateIgnored(value) == FALSE
StatusGateAlways(value) == TRUE

\* The tests login() makes on what its steps return: TRUE when login()
\* returns False right there (form, submit) or True right there (status).
\*   if not self.fill_login_form(): return False
FormGate(value) == value # "True"
\*   if not submit_button: ...; return False
SubmitGate(element) == element = None
\*   if self.check_login_status(): ...; return True
StatusGate(value) == value = "True"

Caught(step, res) == IF res.caught THEN [exc EXCEPT !.caught = @ \cup {step}] ELSE exc

\* self.driver.get(login_url)
LoginNavigate ==
    /\ pc = "navigate"
    /\ trail' = Append(trail, pc)
    /\ browser' = Get(browser)
    /\ \E call \in Calls :
        IF call = "raise" THEN Escape("navigate")
        ELSE pc' = "settle_wait" /\ UNCHANGED <<exc, outcome>>
    /\ UNCHANGED <<config, environ, ret, obs>>

\* TimingManager.smart_wait(PAGE_LOAD_DELAY, 1.0, logger)
LoginSettleWait ==
    /\ pc = "settle_wait"
    /\ trail' = Append(trail, pc)
    /\ \E call \in Calls :
        IF call = "raise" THEN Escape("settle_wait")
        ELSE pc' = "age" /\ UNCHANGED <<exc, outcome>>
    /\ UNCHANGED <<config, environ, browser, ret, obs>>

\* self.handle_age_verification(): the return value is not read.
LoginAgeVerification ==
    /\ pc = "age"
    /\ trail' = Append(trail, pc)
    /\ \E r \in AgeAnswers :
        LET res == handle_age_verification(browser, r)
        IN  /\ browser' = res.browser
            /\ IF res.raised
               THEN Escape("age") /\ UNCHANGED ret
               ELSE /\ ret' = [ret EXCEPT !.age = res.ret]
                    /\ exc' = Caught("age", res)
                    /\ pc' = "fill"
                    /\ UNCHANGED outcome
    /\ UNCHANGED <<config, environ, obs>>

\* if not self.fill_login_form(): return False
LoginFillForm ==
    /\ pc = "fill"
    /\ trail' = Append(trail, pc)
    /\ \E r \in FormAnswers :
        LET res == fill_login_form(browser, r)
        IN  /\ browser' = res.browser
            /\ obs' = [obs EXCEPT !.user = res.user, !.pass = res.pass]
            /\ IF res.raised
               THEN Escape("fill") /\ UNCHANGED ret
               ELSE /\ ret' = [ret EXCEPT !.fill = res.ret]
                    /\ exc' = Caught("fill", res)
                    /\ IF FormGate(res.ret)
                       THEN Return("False")
                       ELSE pc' = "security" /\ UNCHANGED outcome
    /\ UNCHANGED <<config, environ>>

\* self.handle_security_question(): the return value is not read.
LoginSecurityQuestion ==
    /\ pc = "security"
    /\ trail' = Append(trail, pc)
    /\ \E r \in QuestionAnswers :
        LET res == handle_security_question(config, browser, r)
        IN  /\ browser' = res.browser
            /\ IF res.raised
               THEN Escape("security") /\ UNCHANGED ret
               ELSE /\ ret' = [ret EXCEPT !.security = res.ret]
                    /\ exc' = Caught("security", res)
                    /\ pc' = "find_submit"
                    /\ UNCHANGED outcome
    /\ UNCHANGED <<config, environ, obs>>

\* submit_button = find_clickable_by_selectors([...], timeout=5)
\* if not submit_button: return False
LoginFindSubmit ==
    /\ pc = "find_submit"
    /\ trail' = Append(trail, pc)
    /\ browser' = Lookup(browser)
    /\ \E call \in Calls, present \in SUBSET Range(submit_selectors) :
        LET submit_button == find_by_selectors(submit_selectors, present)
        IN  IF call = "raise"
            THEN Escape("find_submit") /\ UNCHANGED obs
            ELSE /\ obs' = [obs EXCEPT !.submit = submit_button]
                 /\ UNCHANGED exc
                 /\ IF SubmitGate(submit_button)
                    THEN Return("False")
                    ELSE pc' = "click_submit" /\ UNCHANGED outcome
    /\ UNCHANGED <<config, environ, ret>>

\* BrowserHelper.safe_click(self.driver, submit_button, self.logger)
LoginClickSubmit ==
    /\ pc = "click_submit"
    /\ trail' = Append(trail, pc)
    /\ \E call \in Calls :
        IF call = "raise"
        THEN Escape("click_submit") /\ UNCHANGED browser
        ELSE /\ browser' = Click(browser, "submit")
             /\ pc' = "submit_wait"
             /\ UNCHANGED <<exc, outcome>>
    /\ UNCHANGED <<config, environ, ret, obs>>

\* TimingManager.smart_wait(PAGE_LOAD_DELAY, 1.5, logger)
LoginSubmitWait ==
    /\ pc = "submit_wait"
    /\ trail' = Append(trail, pc)
    /\ \E call \in Calls :
        IF call = "raise" THEN Escape("submit_wait")
        ELSE pc' = "status" /\ UNCHANGED <<exc, outcome>>
    /\ UNCHANGED <<config, environ, browser, ret, obs>>

\* if self.check_login_status(): return True
LoginCheckStatus ==
    /\ pc = "status"
    /\ trail' = Append(trail, pc)
    /\ \E r \in StatusAnswers :
        LET res == check_login_status(browser, r)
        IN  /\ browser' = res.browser
            /\ obs' = [obs EXCEPT !.markers = IF r.raises = "none" THEN r.present ELSE {}]
            /\ IF res.raised
               THEN Escape("status") /\ UNCHANGED ret
               ELSE /\ ret' = [ret EXCEPT !.status = res.ret]
                    /\ exc' = Caught("status", res)
                    /\ IF StatusGate(res.ret)
                       THEN Return("True")
                       ELSE pc' = "error_message" /\ UNCHANGED outcome
    /\ UNCHANGED <<config, environ>>

\* Variant of LoginErrorMessage: a failed login is tried once more from the
\* navigation step.
LoginErrorMessageRetry ==
    /\ pc = "error_message"
    /\ trail' = Append(trail, pc)
    /\ \E r \in PageAnswers :
        LET res == check_login_error_message(r)
        IN  /\ obs' = [obs EXCEPT !.page = IF r.raises = "none" THEN r.page ELSE {}]
            /\ IF res.raised
               THEN Escape("error_message") /\ UNCHANGED ret
               ELSE /\ ret' = [ret EXCEPT !.error = res.ret]
                    /\ UNCHANGED exc
                    /\ IF browser.gets < 2
                       THEN pc' = "navigate" /\ UNCHANGED outcome
                       ELSE Return("False")
    /\ UNCHANGED <<config, environ, browser>>

\* error = self.check_login_error_message(); ...; return False
LoginErrorMessage ==
    /\ pc = "error_message"
    /\ trail' = Append(trail, pc)
    /\ \E r \in PageAnswers :
        LET res == check_login_error_message(r)
        IN  /\ obs' = [obs EXCEPT !.page = IF r.raises = "none" THEN r.page ELSE {}]
            /\ IF res.raised
               THEN Escape("error_message") /\ UNCHANGED ret
               ELSE /\ ret' = [ret EXCEPT !.error = res.ret]
                    /\ UNCHANGED exc
                    /\ Return("False")
    /\ UNCHANGED <<config, environ, browser>>

Next ==
    \/ LoginNavigate
    \/ LoginSettleWait
    \/ LoginAgeVerification
    \/ LoginFillForm
    \/ LoginSecurityQuestion
    \/ LoginFindSubmit
    \/ LoginClickSubmit
    \/ LoginSubmitWait
    \/ LoginCheckStatus
    \/ LoginErrorMessage

Spec == Init /\ [][Next]_vars

\* login() is synchronous and blocking: a step that can run does run.
FairSpec == Spec /\ WF_vars(Next)

\* ------------------------------------------------------------ properties
Ran(step) == step \in Range(trail)
Done == pc = "done"
Found(element) == element \notin {Unset, None}
SubmitClicks == Count(browser.clicks, "submit")

\* C1: login() never propagates an exception: it ends with True or False,
\* and with False whenever a step raised into it (navigation, settling
\* waits, submit lookup, submit click, failure-phrase scan) or a raise was
\* caught inside the form fill or the login state check; the age gate and
\* the security question never raise into login().
C1_LoginNeverPropagates ==
    /\ outcome # "Exception"
    /\ exc.escaped \notin {"age", "fill", "security", "status"}
    /\ Done => /\ outcome \in {"True", "False"}
               /\ exc.escaped # None => outcome = "False"
               /\ exc.caught \cap {"fill", "status"} # {} => outcome = "False"

C1_Witness == Done /\ exc.escaped = "submit_wait" /\ outcome = "False"

\* C2: login() returns True exactly when both fields were located, a submit
\* control was located and clicked, and the state check run after that click
\* found a logged-in marker; every other finished run returns False.
C2_TrueIffFullSuccess ==
    Done =>
        /\ outcome \in {"True", "False"}
        /\ outcome = "True" <=>
            /\ Found(obs.user) /\ Found(obs.pass) /\ Found(obs.submit)
            /\ SubmitClicks >= 1
            /\ Ran("status")
            /\ obs.markers \cap Range(indicators) # {}

C2_Witness == Done /\ outcome = "True" /\ obs.markers = {".vwmy"}

\* C3 as stated: with the username or password field not located, login()
\* returns False, no submit control is looked up and no click at all is
\* recorded on the browser session.
C3_NoClickRecorded ==
    (obs.user = None \/ obs.pass = None) =>
        /\ outcome = "False"
        /\ ~Ran("find_submit")
        /\ browser.clicks = <<>>

\* C3 amended: with the username or password field not located, login()
\* returns False, no submit control is looked up and no submit click is
\* recorded; the only click the run can have recorded is the age gate's.
C3_NoSubmitAttempt ==
    (obs.user = None \/ obs.pass = None) =>
        /\ outcome = "False"
        /\ Done
        /\ ~Ran("find_submit") /\ ~Ran("click_submit")
        /\ obs.submit = Unset
        /\ Range(browser.clicks) \subseteq {"age_link"}

C3_Witness ==
    Done /\ Found(obs.user) /\ obs.pass = None /\ browser.clicks = <<"age_link">>

\* C4: the submit control is located and clicked only when the security
\* question step returned success; when handle_security_question() returns
\* False there is no submit lookup, no submit click, and login() fails.
C4_SubmitGatedOnSecurityQuestion ==
    ret.security = "False" =>
        /\ ~Ran("find_submit")
        /\ SubmitClicks = 0
        /\ Done => outcome = "False"

\* C5: with a session-cookie string supplied, login() does not run the
\* credential login: no credential field is filled, no submit is clicked.
C5_CookiePathOnly ==
    environ.cookie => (browser.writes = <<>> /\ SubmitClicks = 0)

\* C6: handle_age_verification() returns True in every case and never
\* raises, and login() goes on to the form fill after it.
C6_AgeGateNeverFails ==
    /\ exc.escaped # "age"
    /\ Ran("age") => /\ ret.age = "True"
                     /\ pc = "fill" \/ Ran("fill")

C6_Witness == "age" \in exc.caught /\ Ran("fill") /\ ret.age = "True"

\* C7: with the security-question feature disabled the step returns success
\* and leaves the browser session as it was: no lookup, no click, no write.
C7_DisabledIsNoOp ==
    [][(pc = "security" /\ ~config.enable_security_question) =>
          (ret'.security = "True" /\ browser' = browser /\ exc' = exc)]_vars

C7_Witness ==
    ~config.enable_security_question /\ ret.security = "True" /\ pc = "find_submit"

\* C8: check_login_status() returns True only when a logged-in marker was
\* found; with no marker, or a raising lookup, it returns False; it never
\* raises.
C8_NoFalsePositive ==
    /\ exc.escaped # "status"
    /\ Ran("status") =>
        /\ ret.status \in {"True", "False"}
        /\ ret.status = "True" <=>
             ("status" \notin exc.caught /\ obs.markers \cap Range(indicators) # {})

C8_Witness == Ran("status") /\ "status" \in exc.caught /\ ret.status = "False"

\* C9: the failure-phrase scan runs only after the state check returned
\* False; it yields the first phrase, in list order, occurring in the page,
\* or None when none occurs; login() then returns False.
C9_FirstPhraseInOrder ==
    /\ Ran("error_message") => (ret.status = "False" /\ Done /\ outcome = "False")
    /\ ret.error # Unset =>
        /\ Ran("error_message")
        /\ ret.error = None <=> obs.page \cap Range(errors) = {}
        /\ ret.error # None =>
             \E i \in 1..Len(errors) :
                 /\ errors[i] = ret.error
                 /\ errors[i] \in obs.page
                 /\ \A j \in 1..(i - 1) : errors[j] \notin obs.page

C9_Witness ==
    /\ ret.error = errors[2]
    /\ {errors[2], errors[4]} \subseteq obs.page
    /\ outcome = "False"

\* C10: one invocation navigates exactly once, populates the credential
\* fields at most once, clicks submit at most once, checks the login state
\* at most once, never revisits a step, and runs until it has an outcome.
C10_NoRetries ==
    /\ browser.gets = (IF trail = <<>> THEN 0 ELSE 1)
    /\ Count(browser.writes, <<"username", "send_keys">>) <= 1
    /\ Count(browser.writes, <<"password", "send_keys">>) <= 1
    /\ SubmitClicks <= 1
    /\ Count(trail, "status") <= 1
    /\ \A i \in 1..Len(trail) : \A j \in (i + 1)..Len(trail) : Rank(trail[i]) < Rank(trail[j])
    /\ \A i \in 1..Len(trail) : Rank(trail[i]) < Rank(pc)
    /\ Done \/ ENABLED Next
    /\ Done <=> outcome # Unset

C10_Witness == Done /\ Len(trail) = Len(steps) - 1 /\ outcome = "False"

====
